---- MODULE Spec2Model ----
(***************************************************************************)
(* MCS queue lock of src/src/lib.rs: Slot, Mutex, Guard.                   *)
(*                                                                         *)
(* Every atomic memory operation of try_lock, lock and Guard::drop is one  *)
(* action; all of them are SeqCst, so interleaving semantics is exact.     *)
(* The client threads are the ones of the test module: a loop of           *)
(* lock / *g += 1 / drop (lots_and_lots), try_lock, a nested lock of an    *)
(* inner Mutex reached through the outer Guard (test_lock_arc_nested) and  *)
(* a panic that unwinds through the Guard.                                 *)
(***************************************************************************)
EXTENDS Naturals, Sequences, FiniteSets

\* Number of client threads and number of acquisitions each one starts.
NThreads == 3
Iters == 2

Threads == 1..NThreads

\* The outer Mutex ("A") and the Mutex stored inside it ("B").
Mutexes == {"A", "B"}

\* ptr::null_mut()
Null == 0

\* Every thread owns one Slot per Mutex (slot1, slot2 of test_lock_arc_nested).
SlotOf(t, m) == IF m = "A" THEN t ELSE NThreads + t
Slots == 1..(2 * NThreads)

VARIABLES
    queue,      \* Mutex.queue: the tail Slot of each Mutex, or Null
    data,       \* Mutex.data
    next,       \* Slot.next: the thread whose stack holds the wait flag, or Null
    locked,     \* the AtomicBool `locked` on each thread's stack (FALSE when not allocated)
    pc,         \* position of each thread
    cur,        \* the Mutex of the call the thread is in
    pred,       \* local `pred` of lock
    succ,       \* local `succ` of Guard::drop
    tmp,        \* value read by `*g += 1`
    iter,       \* acquisitions the thread has still to start
    guards,     \* the Mutexes for which the thread owns a live Guard
    panicking,  \* the thread is unwinding from panic!()
    order,      \* history: threads in the order they took the tail, until they release
    released,   \* history: Mutex.data as the last Guard to be released left it
    inner,      \* what into_inner returned: <<value>>, or <<>> while the Mutex exists
    ub          \* a store through a dangling flag pointer has happened

vars == <<queue, data, next, locked, pc, cur, pred, succ, tmp, iter, guards,
          panicking, order, released, inner, ub>>

\* Initial values of the two Mutexes (Mutex::new(0), Mutex::new(1)).
InitData == [m \in Mutexes |-> IF m = "A" THEN 0 ELSE 1]

Init ==
    /\ queue = [m \in Mutexes |-> Null]
    /\ data = InitData
    /\ next = [s \in Slots |-> Null]
    /\ locked = [t \in Threads |-> FALSE]
    /\ pc = [t \in Threads |-> "idle"]
    /\ cur = [t \in Threads |-> "A"]
    /\ pred = [t \in Threads |-> Null]
    /\ succ = [t \in Threads |-> Null]
    /\ tmp = [t \in Threads |-> 0]
    /\ iter = [t \in Threads |-> Iters]
    /\ guards = [t \in Threads |-> {}]
    /\ panicking = [t \in Threads |-> FALSE]
    /\ order = [m \in Mutexes |-> <<>>]
    /\ released = InitData
    /\ inner = <<>>
    /\ ub = FALSE

\* The sequence s without the element x.
Without(s, x) == SelectSeq(s, LAMBDA y : y # x)

----------------------------------------------------------------------------
\* Guard { lock: self, slot: slot }: the call returns a Guard to the client.
ReturnGuard(t, m) ==
    /\ guards' = [guards EXCEPT ![t] = @ \cup {m}]
    /\ pc' = [pc EXCEPT ![t] = "held"]

\* Mutation of ResetSlot: the Slot keeps what the previous cycle left in next.
ResetSlotKeep(t, m) ==
    /\ next' = next
    /\ cur' = [cur EXCEPT ![t] = m]

\* slot.next = AtomicPtr::new(ptr::null_mut())
ResetSlot(t, m) ==
    /\ next' = [next EXCEPT ![SlotOf(t, m)] = Null]
    /\ cur' = [cur EXCEPT ![t] = m]

\* Mutex::try_lock, first statement.
TryReset(t) ==
    /\ pc[t] = "idle"
    /\ iter[t] > 0
    /\ iter' = [iter EXCEPT ![t] = @ - 1]
    /\ ResetSlot(t, "A")
    /\ pc' = [pc EXCEPT ![t] = "try_cas"]
    /\ UNCHANGED <<queue, data, locked, pred, succ, tmp, guards, panicking, order, ub, released, inner>>

\* Mutation of TryCas: the compare-and-swap answers Some(Guard) whatever it read.
TryCasAlways(t) ==
    /\ pc[t] = "try_cas"
    /\ queue' = [queue EXCEPT ![cur[t]] = IF @ = Null THEN SlotOf(t, cur[t]) ELSE @]
    /\ order' = [order EXCEPT ![cur[t]] = Append(@, t)]
    /\ ReturnGuard(t, cur[t])
    /\ UNCHANGED <<data, next, locked, cur, pred, succ, tmp, iter, panicking, ub, released, inner>>

\* Mutation of TryCas: an unconditional swap in place of the compare-and-swap.
TryCasSwap(t) ==
    /\ pc[t] = "try_cas"
    /\ queue' = [queue EXCEPT ![cur[t]] = SlotOf(t, cur[t])]
    /\ IF queue[cur[t]] = Null
          THEN /\ order' = [order EXCEPT ![cur[t]] = Append(@, t)]
               /\ ReturnGuard(t, cur[t])
          ELSE /\ pc' = [pc EXCEPT ![t] = "idle"]
               /\ UNCHANGED <<order, guards>>
    /\ UNCHANGED <<data, next, locked, cur, pred, succ, tmp, iter, panicking, ub, released, inner>>

\* Mutex::try_lock: queue.compare_and_swap(null, slot), Some(Guard) or None.
TryCas(t) ==
    /\ pc[t] = "try_cas"
    /\ IF queue[cur[t]] = Null
          THEN /\ queue' = [queue EXCEPT ![cur[t]] = SlotOf(t, cur[t])]
               /\ order' = [order EXCEPT ![cur[t]] = Append(@, t)]
               /\ ReturnGuard(t, cur[t])
          ELSE /\ pc' = [pc EXCEPT ![t] = "idle"]
               /\ UNCHANGED <<queue, order, guards>>
    /\ UNCHANGED <<data, next, locked, cur, pred, succ, tmp, iter, panicking, ub, released, inner>>

\* Mutex::lock, first statement.
LockReset(t, m) ==
    /\ ResetSlot(t, m)
    /\ pc' = [pc EXCEPT ![t] = "lock_swap"]
    /\ UNCHANGED <<queue, data, locked, pred, succ, tmp, guards, panicking, order, ub, released, inner>>

\* Mutation of LockSwap: the Guard is returned without looking at pred.
LockSwapNoWait(t) ==
    /\ pc[t] = "lock_swap"
    /\ queue' = [queue EXCEPT ![cur[t]] = SlotOf(t, cur[t])]
    /\ order' = [order EXCEPT ![cur[t]] = Append(@, t)]
    /\ ReturnGuard(t, cur[t])
    /\ UNCHANGED <<data, next, locked, cur, pred, succ, tmp, iter, panicking, ub, released, inner>>

\* Mutation of LockSwap: the flag is created and set before pred is looked at.
LockSwapFlagFirst(t) ==
    /\ pc[t] = "lock_swap"
    /\ queue' = [queue EXCEPT ![cur[t]] = SlotOf(t, cur[t])]
    /\ order' = [order EXCEPT ![cur[t]] = Append(@, t)]
    /\ locked' = [locked EXCEPT ![t] = TRUE]
    /\ IF queue[cur[t]] = Null
          THEN /\ ReturnGuard(t, cur[t])
               /\ UNCHANGED pred
          ELSE /\ pred' = [pred EXCEPT ![t] = queue[cur[t]]]
               /\ pc' = [pc EXCEPT ![t] = "lock_publish"]
               /\ UNCHANGED guards
    /\ UNCHANGED <<data, next, cur, succ, tmp, iter, panicking, ub, released, inner>>

\* Mutation of LockSwap: one queue shared by every Mutex.
LockSwapShared(t) ==
    /\ pc[t] = "lock_swap"
    /\ queue' = [queue EXCEPT !["A"] = SlotOf(t, cur[t])]
    /\ order' = [order EXCEPT ![cur[t]] = Append(@, t)]
    /\ IF queue["A"] = Null
          THEN /\ ReturnGuard(t, cur[t])
               /\ UNCHANGED pred
          ELSE /\ pred' = [pred EXCEPT ![t] = queue["A"]]
               /\ pc' = [pc EXCEPT ![t] = "lock_publish"]
               /\ UNCHANGED guards
    /\ UNCHANGED <<data, next, locked, cur, succ, tmp, iter, panicking, ub, released, inner>>

\* let pred = self.queue.swap(slot); if !pred.is_null() { ... } Guard { .. }
LockSwap(t) ==
    /\ pc[t] = "lock_swap"
    /\ queue' = [queue EXCEPT ![cur[t]] = SlotOf(t, cur[t])]
    /\ order' = [order EXCEPT ![cur[t]] = Append(@, t)]
    /\ IF queue[cur[t]] = Null
          THEN /\ ReturnGuard(t, cur[t])
               /\ UNCHANGED pred
          ELSE /\ pred' = [pred EXCEPT ![t] = queue[cur[t]]]
               /\ pc' = [pc EXCEPT ![t] = "lock_publish"]
               /\ UNCHANGED guards
    /\ UNCHANGED <<data, next, locked, cur, succ, tmp, iter, panicking, ub, released, inner>>

\* Mutation of LockPublish: the flag pointer is never stored into pred.next.
LockPublishLost(t) ==
    /\ pc[t] = "lock_publish"
    /\ locked' = [locked EXCEPT ![t] = TRUE]
    /\ pred' = [pred EXCEPT ![t] = Null]
    /\ pc' = [pc EXCEPT ![t] = "lock_spin"]
    /\ UNCHANGED <<queue, data, next, cur, succ, tmp, iter, guards, panicking, order, ub, released, inner>>

\* let locked = AtomicBool::new(true); pred.next.store(&locked)
LockPublish(t) ==
    /\ pc[t] = "lock_publish"
    /\ locked' = [locked EXCEPT ![t] = TRUE]
    /\ next' = [next EXCEPT ![pred[t]] = t]
    /\ pred' = [pred EXCEPT ![t] = Null]
    /\ pc' = [pc EXCEPT ![t] = "lock_spin"]
    /\ UNCHANGED <<queue, data, cur, succ, tmp, iter, guards, panicking, order, ub, released, inner>>

\* while locked.load() { pause(); }: one turn of the loop with the flag still set.
LockPause(t) ==
    /\ pc[t] = "lock_spin"
    /\ locked[t]
    /\ UNCHANGED vars

\* Mutation of LockSpinExit: the loop is left without reading the flag.
LockSpinExitEarly(t) ==
    /\ pc[t] = "lock_spin"
    /\ locked' = [locked EXCEPT ![t] = FALSE]
    /\ ReturnGuard(t, cur[t])
    /\ UNCHANGED <<queue, data, next, cur, pred, succ, tmp, iter, panicking, order, ub, released, inner>>

\* while locked.load() { .. } left; Guard { lock: self, slot: slot }
LockSpinExit(t) ==
    /\ pc[t] = "lock_spin"
    /\ ~locked[t]
    /\ ReturnGuard(t, cur[t])
    /\ UNCHANGED <<queue, data, next, locked, cur, pred, succ, tmp, iter, panicking, order, ub, released, inner>>

----------------------------------------------------------------------------
\* The wait flag of thread u is allocated: u is inside the `if !pred.is_null()`
\* block of lock, after `let locked` and before the block ends.
FlagAlive(u) == pc[u] = "lock_spin"

\* Guard::drop has returned: the Guard is gone and the client goes on. The inner
\* Guard (lock2) is dropped before the outer one (lock); a panicking thread ends.
DropReturn(t) ==
    /\ guards' = [guards EXCEPT ![t] = @ \ {cur[t]}]
    /\ order' = [order EXCEPT ![cur[t]] = Without(@, t)]
    /\ released' = [released EXCEPT ![cur[t]] = data[cur[t]]]
    /\ succ' = [succ EXCEPT ![t] = Null]
    /\ IF cur[t] = "B"
          THEN /\ cur' = [cur EXCEPT ![t] = "A"]
               /\ pc' = [pc EXCEPT ![t] = "drop_load"]
          ELSE /\ pc' = [pc EXCEPT ![t] = IF panicking[t] THEN "dead" ELSE "idle"]
               /\ UNCHANGED cur

\* Mutation of DropLoad: the compare-and-swap is tried whatever next holds.
DropLoadAlwaysCas(t) ==
    /\ pc[t] = "drop_load"
    /\ succ' = [succ EXCEPT ![t] = next[SlotOf(t, cur[t])]]
    /\ pc' = [pc EXCEPT ![t] = "drop_cas"]
    /\ UNCHANGED <<queue, data, next, locked, cur, pred, tmp, iter, guards,
                   panicking, order, ub, released, inner>>

\* let succ = self.slot.next.load(); if succ.is_null() { .. } else { .. }
DropLoad(t) ==
    /\ pc[t] = "drop_load"
    /\ succ' = [succ EXCEPT ![t] = next[SlotOf(t, cur[t])]]
    /\ pc' = [pc EXCEPT ![t] = IF next[SlotOf(t, cur[t])] = Null
                                  THEN "drop_cas" ELSE "drop_store"]
    /\ UNCHANGED <<queue, data, next, locked, cur, pred, tmp, iter, guards,
                   panicking, order, ub, released, inner>>

\* Mutation of DropCas: a failed compare-and-swap returns without waking anyone.
DropCasNoWait(t) ==
    /\ pc[t] = "drop_cas"
    /\ queue' = [queue EXCEPT ![cur[t]] = IF @ = SlotOf(t, cur[t]) THEN Null ELSE @]
    /\ DropReturn(t)
    /\ UNCHANGED <<data, next, locked, pred, tmp, iter, panicking, ub, inner>>

\* Mutation of DropCas: a plain store of null in place of the compare-and-swap.
DropCasBlind(t) ==
    /\ pc[t] = "drop_cas"
    /\ queue' = [queue EXCEPT ![cur[t]] = Null]
    /\ DropReturn(t)
    /\ UNCHANGED <<data, next, locked, pred, tmp, iter, panicking, ub, inner>>

\* if self.lock.queue.compare_and_swap(slot_ptr, null) != slot_ptr { loop .. }
DropCas(t) ==
    /\ pc[t] = "drop_cas"
    /\ IF queue[cur[t]] = SlotOf(t, cur[t])
          THEN /\ queue' = [queue EXCEPT ![cur[t]] = Null]
               /\ DropReturn(t)
          ELSE /\ pc' = [pc EXCEPT ![t] = "drop_spin"]
               /\ UNCHANGED <<queue, cur, succ, guards, order, released>>
    /\ UNCHANGED <<data, next, locked, pred, tmp, iter, panicking, ub, inner>>

\* loop { succ = self.slot.next.load(); if !succ.is_null() { break; } pause(); }:
\* one turn that finds next still null.
DropPause(t) ==
    /\ pc[t] = "drop_spin"
    /\ next[SlotOf(t, cur[t])] = Null
    /\ UNCHANGED vars

\* The turn of that loop that finds next non-null and breaks.
DropSpinExit(t) ==
    /\ pc[t] = "drop_spin"
    /\ next[SlotOf(t, cur[t])] # Null
    /\ succ' = [succ EXCEPT ![t] = next[SlotOf(t, cur[t])]]
    /\ pc' = [pc EXCEPT ![t] = "drop_store"]
    /\ UNCHANGED <<queue, data, next, locked, cur, pred, tmp, iter, guards,
                   panicking, order, ub, released, inner>>

\* Mutation of DropStore: false is stored into the flag of some waiter, not
\* necessarily the one read from slot.next.
DropStoreAny(t) ==
    /\ pc[t] = "drop_store"
    /\ \E u \in Threads :
          /\ FlagAlive(u)
          /\ cur[u] = cur[t]
          /\ locked' = [locked EXCEPT ![u] = FALSE]
    /\ UNCHANGED ub
    /\ DropReturn(t)
    /\ UNCHANGED <<queue, data, next, pred, tmp, iter, panicking, inner>>

\* let succ = unsafe { &*succ }; succ.store(false): both branches of drop end so.
\* The flag lives on the successor's stack: the write is valid only while the
\* successor is still inside lock.
DropStore(t) ==
    /\ pc[t] = "drop_store"
    /\ locked' = [locked EXCEPT ![succ[t]] = FALSE]
    /\ ub' = (ub \/ ~FlagAlive(succ[t]))
    /\ DropReturn(t)
    /\ UNCHANGED <<queue, data, next, pred, tmp, iter, panicking, inner>>

----------------------------------------------------------------------------
\* The client threads of the test module.

\* let mut g = LOCK.lock(&mut slot), one turn of `for _ in 0..ITERS`.
ClientLock(t) ==
    /\ pc[t] = "idle"
    /\ iter[t] > 0
    /\ iter' = [iter EXCEPT ![t] = @ - 1]
    /\ LockReset(t, "A")

\* let lock2 = lock.lock(&mut slot2): the inner Mutex, through the outer Guard.
ClientNested(t) ==
    /\ pc[t] = "held"
    /\ cur[t] = "A"
    /\ ~panicking[t]
    /\ UNCHANGED iter
    /\ LockReset(t, "B")

\* Guard::deref: the read of `*g += 1`, or of assert_eq!(*lock2, 1).
CsRead(t) ==
    /\ pc[t] = "held"
    /\ ~panicking[t]
    /\ tmp' = [tmp EXCEPT ![t] = data[cur[t]]]
    /\ pc' = [pc EXCEPT ![t] = IF cur[t] = "A" THEN "cs_write" ELSE "drop_load"]
    /\ UNCHANGED <<queue, data, next, locked, cur, pred, succ, iter, guards,
                   panicking, order, ub, released, inner>>

\* Guard::deref_mut: the write of `*g += 1`; the Guard then goes out of scope.
CsWrite(t) ==
    /\ pc[t] = "cs_write"
    /\ data' = [data EXCEPT ![cur[t]] = tmp[t] + 1]
    /\ tmp' = [tmp EXCEPT ![t] = 0]
    /\ pc' = [pc EXCEPT ![t] = "drop_load"]
    /\ UNCHANGED <<queue, next, locked, cur, pred, succ, iter, guards,
                   panicking, order, ub, released, inner>>

\* Mutation of Panic: the thread ends without running Guard::drop.
PanicNoUnwind(t) ==
    /\ pc[t] \in {"held", "drop_load"}
    /\ ~panicking[t]
    /\ panicking' = [panicking EXCEPT ![t] = TRUE]
    /\ pc' = [pc EXCEPT ![t] = "dead"]
    /\ UNCHANGED <<queue, data, next, locked, cur, pred, succ, tmp, iter, guards,
                   order, ub, released, inner>>

\* panic!() while a Guard is in scope: unwinding drops the Guard.
Panic(t) ==
    /\ pc[t] \in {"held", "drop_load"}
    /\ ~panicking[t]
    /\ panicking' = [panicking EXCEPT ![t] = TRUE]
    /\ pc' = [pc EXCEPT ![t] = "drop_load"]
    /\ UNCHANGED <<queue, data, next, locked, cur, pred, succ, tmp, iter, guards,
                   order, ub, released, inner>>

----------------------------------------------------------------------------
\* The steps of lock and of Guard::drop, common to every client.
LockStep(t) ==
    \/ LockSwap(t)
    \/ LockPublish(t)
    \/ LockPause(t)
    \/ LockSpinExit(t)

DropStep(t) ==
    \/ DropLoad(t)
    \/ DropCas(t)
    \/ DropPause(t)
    \/ DropSpinExit(t)
    \/ DropStore(t)

\* One step of thread t, any client: lock, try_lock, nested lock, panic.
ThreadStep(t) ==
    \/ ClientLock(t)
    \/ ClientNested(t)
    \/ TryReset(t)
    \/ TryCas(t)
    \/ LockStep(t)
    \/ CsRead(t)
    \/ CsWrite(t)
    \/ Panic(t)
    \/ DropStep(t)

Next == \E t \in Threads : ThreadStep(t)

Spec == Init /\ [][Next]_vars

\* One step of thread t in lots_and_lots: inc(), ITERS turns of lock / *g += 1 / drop.
NextLotsOf(t) ==
    \/ ClientLock(t)
    \/ LockStep(t)
    \/ CsRead(t)
    \/ CsWrite(t)
    \/ DropStep(t)

NextLots == \E t \in Threads : NextLotsOf(t)

SpecLots == Init /\ [][NextLots]_vars

\* The threads run in parallel, each on its own core (busy-waiting, no parking):
\* a thread that can take a step eventually takes one.
FairLots == SpecLots /\ \A t \in Threads : WF_vars(NextLotsOf(t))

\* One step of thread t in test_lock_arc_access_in_unwind: threads that lock and
\* increment, any of which may panic with the Guard in scope.
NextUnwindOf(t) ==
    \/ ClientLock(t)
    \/ LockStep(t)
    \/ CsRead(t)
    \/ CsWrite(t)
    \/ Panic(t)
    \/ DropStep(t)

NextUnwind == \E t \in Threads : NextUnwindOf(t)

SpecUnwind == Init /\ [][NextUnwind]_vars

FairUnwind == SpecUnwind /\ \A t \in Threads : WF_vars(NextUnwindOf(t))

----------------------------------------------------------------------------
\* The Mutex in the hands of its owner: test_into_inner, test_get_mut, smoke.

\* Largest value the owner stores.
MaxVal == 5
Values == 0..MaxVal

\* The thread that created the Mutex and keeps it to itself.
Owner == 1

\* let m = Mutex::new(v)
InitOwned ==
    \E v \in Values :
        /\ queue = [m \in Mutexes |-> Null]
        /\ data = [InitData EXCEPT !["A"] = v]
        /\ next = [s \in Slots |-> Null]
        /\ locked = [t \in Threads |-> FALSE]
        /\ pc = [t \in Threads |-> "idle"]
        /\ cur = [t \in Threads |-> "A"]
        /\ pred = [t \in Threads |-> Null]
        /\ succ = [t \in Threads |-> Null]
        /\ tmp = [t \in Threads |-> 0]
        /\ iter = [t \in Threads |-> Iters]
        /\ guards = [t \in Threads |-> {}]
        /\ panicking = [t \in Threads |-> FALSE]
        /\ order = [m \in Mutexes |-> <<>>]
        /\ released = [InitData EXCEPT !["A"] = v]
        /\ inner = <<>>
        /\ ub = FALSE

\* `&mut self` and `self`: the Mutex exists and nothing borrows it, so no Guard is
\* alive and no call of lock or try_lock is under way.
Exclusive ==
    /\ inner = <<>>
    /\ \A t \in Threads : pc[t] \in {"idle", "dead"} /\ guards[t] = {}

\* Mutation of GetMut: the reference points to a copy of the value.
GetMutCopy(w) ==
    /\ Exclusive
    /\ released' = [released EXCEPT !["A"] = w]
    /\ UNCHANGED <<queue, data, next, locked, pc, cur, pred, succ, tmp, iter, guards,
                   panicking, order, inner, ub>>

\* *m.get_mut() = w: unsafe { &mut *self.data.get() }, then the owner's write.
GetMut(w) ==
    /\ Exclusive
    /\ data' = [data EXCEPT !["A"] = w]
    /\ released' = [released EXCEPT !["A"] = w]
    /\ UNCHANGED <<queue, next, locked, pc, cur, pred, succ, tmp, iter, guards,
                   panicking, order, inner, ub>>

\* Mutation of IntoInner: the tail pointer is handed out as the value.
IntoInnerTail ==
    /\ Exclusive
    /\ inner' = <<queue["A"]>>
    /\ UNCHANGED <<queue, data, next, locked, pc, cur, pred, succ, tmp, iter, guards,
                   panicking, order, released, ub>>

\* m.into_inner(): unsafe { self.data.into_inner() }; the Mutex is consumed.
IntoInner ==
    /\ Exclusive
    /\ inner' = <<data["A"]>>
    /\ UNCHANGED <<queue, data, next, locked, pc, cur, pred, succ, tmp, iter, guards,
                   panicking, order, released, ub>>

\* drop(m.lock(&mut slot)), m.try_lock(&mut slot) and `*g += 1` by the owner,
\* while the Mutex exists.
OwnerLocks ==
    /\ inner = <<>>
    /\ \/ NextLotsOf(Owner)
       \/ TryReset(Owner)
       \/ TryCas(Owner)

NextOwned ==
    \/ \E w \in Values : GetMut(w)
    \/ IntoInner
    \/ OwnerLocks

SpecOwned == InitOwned /\ [][NextOwned]_vars

----------------------------------------------------------------------------
\* Vocabulary of the properties.

\* Thread t owns a live Guard of m: lock or try_lock has returned it and its
\* drop has not yet freed the tail or stored false into the successor's flag.
Holds(t, m) == m \in guards[t]

\* Thread t has swapped its Slot onto the tail of m and is still inside lock.
InLock(t, m) == cur[t] = m /\ pc[t] \in {"lock_publish", "lock_spin"}

\* No thread holds a Guard of m and no thread is queued in lock.
LockFree(m) == \A t \in Threads : ~Holds(t, m) /\ ~InLock(t, m)

\* Every thread has finished (or died).
AllDone == \A t \in Threads : pc[t] = "dead" \/ (pc[t] = "idle" /\ iter[t] = 0)

\* C1: at most one thread at a time holds a live Guard of a given Mutex.
MutualExclusion ==
    \A m \in Mutexes : \A t, u \in Threads : Holds(t, m) /\ Holds(u, m) => t = u

\* A holder in the middle of `*g += 1`, a waiter spinning and a try_lock under way.
MutualExclusionWitness ==
    \E t, u, v \in Threads :
        /\ Holds(t, "A") /\ pc[t] = "cs_write"
        /\ pc[u] = "lock_spin" /\ locked[u]
        /\ pc[v] = "try_cas"

\* C2: N threads, M turns each of lock / read / write counter+1 / drop: when all
\* have finished the counter is N*M.
NoLostUpdates == AllDone => data["A"] = NThreads * Iters

NoLostUpdatesWitness == AllDone /\ data["A"] = NThreads * Iters /\ queue["A"] = Null

\* C3: the compare-and-swap of try_lock returns a Guard if and only if, at that
\* moment, no thread holds a Guard and no thread is queued in lock; so it returns
\* None while another thread's Guard is live.
TryLockIffFree ==
    [][\A t \in Threads :
          pc[t] = "try_cas" /\ pc'[t] # "try_cas" =>
             /\ Holds(t, cur[t])' <=> LockFree(cur[t])
             /\ (\E u \in Threads : u # t /\ Holds(u, cur[t])) => ~Holds(t, cur[t])']_vars

\* A try_lock about to run its compare-and-swap while another thread holds the
\* Guard it got from its own try_lock or lock, and one where the lock is free.
TryLockIffFreeWitness ==
    \E t, u \in Threads :
        /\ t # u
        /\ pc[t] = "try_cas" /\ Holds(u, "A")
        /\ pc[u] = "cs_write"

\* C4: a failing try_lock changes nothing but the caller's own Slot: the reset
\* writes null into that Slot only, and the failed compare-and-swap, a single step
\* that goes straight back to the caller, leaves tail, Slots, flags, value and
\* Guards as they are.
TryFailNoEffect ==
    [][\A t \in Threads :
          /\ pc[t] = "idle" /\ pc'[t] = "try_cas" =>
                /\ queue[cur'[t]] # SlotOf(t, cur'[t])
                /\ \A u \in Threads : pred[u] # SlotOf(t, cur'[t])
                /\ next' = [next EXCEPT ![SlotOf(t, cur'[t])] = Null]
                /\ UNCHANGED <<queue, locked, data, guards>>
          /\ pc[t] = "try_cas" => pc'[t] \in {"try_cas", "idle", "held"}
          /\ pc[t] = "try_cas" /\ pc'[t] = "idle" =>
                UNCHANGED <<queue, next, locked, data, guards, order, ub>>]_vars

\* A try_lock about to fail: the lock is held, a waiter has published its flag.
TryFailNoEffectWitness ==
    \E t, u, v \in Threads :
        /\ pc[t] = "try_cas" /\ queue["A"] # Null
        /\ Holds(u, "A") /\ next[SlotOf(u, "A")] = v
        /\ pc[v] = "lock_spin" /\ locked[v]

\* C5: Guards are granted in the order of the swaps on the tail: the holder is
\* always the thread whose swap is the oldest among those not yet released.
FifoHandOff ==
    \A m \in Mutexes : \A t \in Threads :
        Holds(t, m) => order[m] # <<>> /\ Head(order[m]) = t

\* An increment has been made and its Guard released; the oldest of the threads
\* now queued holds the Guard, the next one spins behind it, a third has been through.
FifoHandOffWitness ==
    \E t, u \in Threads :
        /\ Len(order["A"]) >= 2
        /\ Holds(t, "A") /\ Head(order["A"]) = t
        /\ order["A"][2] = u /\ pc[u] = "lock_spin" /\ locked[u]
        /\ \E v \in Threads : v \notin {t, u} /\ pc[v] = "idle" /\ iter[v] < Iters
        /\ queue["A"] = SlotOf(u, "A")
        /\ data["A"] >= 1

\* C6: the step that completes a drop either sets the tail to null and touches no
\* flag, or stores false into exactly one waiter's flag and leaves the tail as it
\* is, non-null; the other steps of a drop change neither tail nor flags.
ReleaseExactlyOne ==
    [][\A t \in Threads :
          /\ \A m \in Mutexes :
                Holds(t, m) /\ ~Holds(t, m)' =>
                   \/ /\ queue[m] = SlotOf(t, m) /\ queue'[m] = Null
                      /\ locked' = locked
                   \/ /\ queue'[m] = queue[m] /\ queue[m] # Null
                      /\ \E u \in Threads :
                            /\ InLock(u, m) /\ locked[u]
                            /\ locked' = [locked EXCEPT ![u] = FALSE]
          /\ pc[t] \in {"drop_load", "drop_cas", "drop_spin", "drop_store"}
                /\ pc'[t] # pc[t] /\ guards'[t] = guards[t] =>
                   queue' = queue /\ locked' = locked]_vars

\* A drop whose compare-and-swap failed is waiting for its successor to publish.
ReleaseExactlyOneWitness ==
    \E t, u \in Threads :
        /\ pc[t] = "drop_spin" /\ Holds(t, "A")
        /\ pc[u] = "lock_publish" /\ pred[u] = SlotOf(t, "A")

\* C8: the tail is null if and only if no thread holds a live Guard and no thread
\* is enqueued in lock.
TailNullIffFree == \A m \in Mutexes : queue[m] = Null <=> LockFree(m)

\* The lock has been handed over: no Guard is live, the tail is non-null, and the
\* woken waiter has not yet left its loop.
TailNullIffFreeWitness ==
    \E u \in Threads :
        /\ pc[u] = "lock_spin" /\ ~locked[u]
        /\ \A t \in Threads : guards[t] = {}
        /\ queue["A"] # Null

\* C10: a thread that holds a Guard of A and locks B with its second Slot finds
\* B's tail null, so lock returns at once; it then reads B's value; and when every
\* thread is through, both tails are null.
NestedLock ==
    /\ \A t \in Threads :
          /\ cur[t] = "B" => Holds(t, "A") /\ pc[t] \notin {"lock_publish", "lock_spin"}
          /\ cur[t] = "B" /\ pc[t] = "lock_swap" => queue["B"] = Null
          /\ cur[t] = "B" /\ pc[t] \in {"drop_load", "drop_cas"} /\ ~panicking[t] =>
                Holds(t, "B") /\ tmp[t] = data["B"] /\ data["B"] = InitData["B"]
    /\ AllDone => queue["A"] = Null /\ queue["B"] = Null

\* Both Guards are held and B's value has been read, with another thread queued on A.
NestedLockWitness ==
    \E t, u \in Threads :
        /\ guards[t] = {"A", "B"} /\ pc[t] = "drop_load" /\ cur[t] = "B"
        /\ tmp[t] = 1 /\ ~panicking[t]
        /\ queue["B"] = SlotOf(t, "B")
        /\ pc[u] = "lock_spin"

\* A thread inside lock, from its swap to the return of the Guard.
InLockCall(t) == pc[t] \in {"lock_swap", "lock_publish", "lock_spin"}

\* C7: with every thread taking steps, a thread that has called lock eventually
\* returns with the Guard; a thread spinning behind a holder leaves its loop.
EventualAcquisition ==
    \A t \in Threads :
        /\ InLockCall(t) ~> Holds(t, cur[t])
        /\ (pc[t] = "lock_spin" /\ locked[t]) ~> (pc[t] = "held")

\* One thread holds the Guard, another spins behind it and a third behind that.
EventualAcquisitionWitness ==
    \E t, u, v \in Threads :
        /\ Holds(t, "A") /\ pc[t] = "held"
        /\ pc[u] = "lock_spin" /\ locked[u] /\ next[SlotOf(t, "A")] = u
        /\ pc[v] = "lock_spin" /\ locked[v] /\ next[SlotOf(u, "A")] = v

\* C9: a thread that panics while it holds a Guard runs the whole of Guard::drop:
\* the step that ends it frees the tail or wakes its successor, a dead thread
\* holds nothing and is referenced by nothing, every Guard granted afterwards
\* sees the value as the last release left it, and every thread that has called
\* lock still gets its Guard.
UnwindReleases ==
    /\ [][\A t \in Threads :
             pc[t] # "dead" /\ pc'[t] = "dead" =>
                /\ Holds(t, "A") /\ ~Holds(t, "A")'
                /\ \/ queue["A"] = SlotOf(t, "A") /\ queue'["A"] = Null
                   \/ \E u \in Threads :
                         /\ InLock(u, "A") /\ locked[u] /\ ~locked'[u]
                         /\ queue'["A"] = queue["A"] /\ queue["A"] # Null]_vars
    /\ [](\A t \in Threads :
             /\ pc[t] = "dead" =>
                   /\ guards[t] = {}
                   /\ \A m \in Mutexes : queue[m] # SlotOf(t, m)
                   /\ \A u \in Threads : pred[u] # SlotOf(t, "A") /\ succ[u] # t
             /\ pc[t] = "held" => data[cur[t]] = released[cur[t]])
    /\ \A t \in Threads : InLockCall(t) ~> Holds(t, cur[t])

\* A thread has died after its increment and released the lock; another one now
\* holds the Guard and has read the value the dead thread wrote.
UnwindReleasesWitness ==
    \E t, u \in Threads :
        /\ pc[t] = "dead" /\ iter[t] = Iters - 1
        /\ Holds(u, "A") /\ pc[u] = "cs_write" /\ iter[u] = Iters - 1
        /\ tmp[u] = 1 /\ released["A"] = 1
        /\ \A v \in Threads : v \notin {t, u} => iter[v] = Iters /\ pc[v] # "dead"

\* C11: a thread that obtains a Guard finds the value exactly as the last released
\* Guard left it (the initial value if none was released), and the value it reads
\* for `*g += 1` is that one, also when it acquires again with the same Slot.
WritesVisible ==
    \A t \in Threads :
        /\ pc[t] = "held" => data[cur[t]] = released[cur[t]]
        /\ pc[t] = "cs_write" => tmp[t] = released["A"] /\ data["A"] = released["A"]
        /\ cur[t] = "B" /\ pc[t] = "drop_load" /\ ~panicking[t] => tmp[t] = released["B"]

\* A thread in its second acquisition with the same Slot has read a value that
\* two earlier increments, one of them its own, have left.
WritesVisibleWitness ==
    \E t \in Threads :
        /\ pc[t] = "cs_write" /\ iter[t] = 0 /\ tmp[t] = 2
        /\ \E u \in Threads : u # t /\ pc[u] = "lock_spin" /\ iter[u] = Iters - 1
        /\ \E v \in Threads : v # t /\ pc[v] = "idle" /\ iter[v] = Iters - 1

\* C12: into_inner returns the value the Mutex was created with, or the one last
\* stored through get_mut or through a Guard; get_mut and into_inner leave the
\* tail, the Slots and the flags alone.
UnwrapRoundTrip ==
    /\ [](inner # <<>> => inner = <<released["A"]>>)
    /\ [](Exclusive => data["A"] = released["A"])
    /\ [][(inner' # inner \/ (data' # data /\ pc' = pc)) =>
             /\ Exclusive
             /\ UNCHANGED <<queue, next, locked, guards, order>>]_vars

\* The owner has locked and incremented twice, then stored 0 through get_mut,
\* and into_inner has returned 0.
UnwrapRoundTripWitness ==
    /\ inner = <<0>>
    /\ iter[Owner] = 0
    /\ pc[Owner] = "idle"

\* C13: a drop that is about to store false holds a pointer to the flag of the
\* thread that swapped in right behind it in this acquisition; that thread is
\* still spinning in lock on the same Mutex and its flag is still true. No store
\* ever went to a flag whose owner had left lock.
FlagValid ==
    /\ ~ub
    /\ \A t \in Threads :
          pc[t] = "drop_store" =>
             /\ succ[t] \in Threads \ {t}
             /\ pc[succ[t]] = "lock_spin" /\ locked[succ[t]]
             /\ cur[succ[t]] = cur[t]
             /\ Len(order[cur[t]]) >= 2
             /\ order[cur[t]][1] = t /\ order[cur[t]][2] = succ[t]

\* Releaser and waiter are both in their second acquisition, with the Slots they
\* used before, after three increments.
FlagValidWitness ==
    \E t \in Threads :
        /\ pc[t] = "drop_store" /\ iter[t] = 0
        /\ succ[t] \in Threads /\ iter[succ[t]] = 0
        /\ data["A"] >= 3

\* The threads that swapped in with the Slot of t as predecessor and have not
\* yet stored their flag pointer.
Unpublished(t) ==
    {u \in Threads : pc[u] = "lock_publish" /\ pred[u] = SlotOf(t, cur[t])}

\* The compare-and-swap of t's drop fails in this step.
DropCasFails(t) == pc[t] = "drop_cas" /\ pc'[t] = "drop_spin"

\* C14 as stated: when the compare-and-swap of drop fails, exactly one other
\* thread has swapped in behind this Slot and has not yet stored its flag pointer.
CasFailsSuccessorUnpublished ==
    [][\A t \in Threads :
          DropCasFails(t) =>
             /\ Cardinality(Unpublished(t)) = 1
             /\ next[SlotOf(t, cur[t])] = Null]_vars

\* C14, amended: when the compare-and-swap of drop fails, exactly one thread has
\* swapped in directly behind this Slot and is still inside lock; it has either not
\* yet stored its flag pointer, or stored it after the releaser's load of next.
\* The compare-and-swap succeeds exactly when no thread has swapped in behind.
CasFailsSuccessorExists ==
    [][\A t \in Threads :
          /\ DropCasFails(t) =>
                /\ Len(order[cur[t]]) >= 2 /\ order[cur[t]][1] = t
                /\ LET u == order[cur[t]][2] IN
                      /\ u # t /\ InLock(u, cur[t])
                      /\ \/ Unpublished(t) = {u} /\ next[SlotOf(t, cur[t])] = Null
                         \/ /\ Unpublished(t) = {}
                            /\ next[SlotOf(t, cur[t])] = u
                            /\ pc[u] = "lock_spin" /\ locked[u]
          /\ pc[t] = "drop_cas" /\ pc'[t] # pc[t] /\ ~DropCasFails(t) =>
                order[cur[t]] = <<t>> /\ queue'[cur[t]] = Null]_vars

\* The compare-and-swap has failed and the successor's pointer is already there.
CasFailsSuccessorExistsWitness ==
    \E t, u \in Threads :
        /\ pc[t] = "drop_spin" /\ next[SlotOf(t, "A")] = u
        /\ pc[u] = "lock_spin" /\ locked[u]

\* A thread inside Guard::drop.
InDrop(t) == pc[t] \in {"drop_load", "drop_cas", "drop_spin", "drop_store"}

\* C15: with every thread taking steps every drop completes; a releaser is in its
\* loop only while a thread that swapped in directly behind it is inside lock,
\* and it leaves the loop, in one step, once that thread's pointer is in next.
ReleaseTerminates ==
    /\ \A t \in Threads : InDrop(t) ~> (pc[t] \in {"idle", "dead"})
    /\ \A t \in Threads :
          (pc[t] = "drop_spin" /\ next[SlotOf(t, cur[t])] # Null) ~> (pc[t] # "drop_spin")
    /\ [](\A t \in Threads :
             pc[t] = "drop_spin" =>
                /\ Len(order[cur[t]]) >= 2 /\ order[cur[t]][1] = t
                /\ InLock(order[cur[t]][2], cur[t])
                /\ next[SlotOf(t, cur[t])] \in {Null, order[cur[t]][2]}
                /\ next[SlotOf(t, cur[t])] = Null =>
                      Unpublished(t) = {order[cur[t]][2]})
    /\ [][\A t \in Threads :
             pc[t] = "drop_spin" /\ pc'[t] # "drop_spin" =>
                /\ pc'[t] = "drop_store"
                /\ succ'[t] = order[cur[t]][2]]_vars

\* A releaser in its loop, its successor about to publish, a third thread behind.
ReleaseTerminatesWitness ==
    \E t, u, v \in Threads :
        /\ pc[t] = "drop_spin" /\ next[SlotOf(t, "A")] = Null
        /\ pc[u] = "lock_publish" /\ pred[u] = SlotOf(t, "A")
        /\ pc[v] = "lock_spin" /\ order["A"] = <<t, u, v>>

\* C16: a drop that loads a non-null pointer from its Slot goes straight to the
\* store, without the compare-and-swap and without the loop; the store clears
\* exactly the flag that next names and ends the drop; neither step changes the
\* tail, any Slot or any other flag.
ReleaseFastPath ==
    [][\A t \in Threads :
          /\ pc[t] = "drop_load" /\ pc'[t] # "drop_load"
                /\ next[SlotOf(t, cur[t])] # Null =>
                   /\ pc'[t] = "drop_store"
                   /\ succ'[t] = next[SlotOf(t, cur[t])]
                   /\ Holds(t, cur[t])'
                   /\ UNCHANGED <<queue, next, locked>>
          /\ pc[t] = "drop_store" /\ guards'[t] # guards[t] =>
                /\ succ[t] = next[SlotOf(t, cur[t])]
                /\ locked[succ[t]]
                /\ locked' = [locked EXCEPT ![succ[t]] = FALSE]
                /\ ~Holds(t, cur[t])'
                /\ UNCHANGED <<queue, next>>]_vars

\* A drop about to load the pointer its successor has already published, with
\* one more thread queued behind.
ReleaseFastPathWitness ==
    \E t, u, v \in Threads :
        /\ pc[t] = "drop_load" /\ cur[t] = "A" /\ next[SlotOf(t, "A")] = u
        /\ pc[u] = "lock_spin" /\ locked[u]
        /\ pc[v] = "lock_spin" /\ next[SlotOf(u, "A")] = v

\* C17: lock and try_lock start by writing null into the caller's Slot, before
\* the Slot is put on the tail; so the next field of an enqueued Slot is null or
\* names the thread that swapped in directly behind it in this acquisition, and
\* a pointer left by an earlier cycle is never what a drop loads.
SlotResetReuse ==
    /\ [][\A t \in Threads :
             pc'[t] \in {"lock_swap", "try_cas"} /\ pc[t] # pc'[t] =>
                /\ next'[SlotOf(t, cur'[t])] = Null
                /\ queue[cur'[t]] # SlotOf(t, cur'[t])]_vars
    /\ [](\A t \in Threads :
             /\ pc[t] \in {"lock_swap", "try_cas"} => next[SlotOf(t, cur[t])] = Null
             /\ \A m \in Mutexes :
                   \A i \in 1..Len(order[m]) :
                      order[m][i] = t =>
                         \/ next[SlotOf(t, m)] = Null
                         \/ /\ i < Len(order[m])
                            /\ next[SlotOf(t, m)] = order[m][i + 1]
                            /\ InLock(order[m][i + 1], m)
             /\ pc[t] = "drop_store" => succ[t] = order[cur[t]][2])

\* One thread is idle with a pointer of its first cycle still in its Slot and an
\* acquisition to go; another has reset its used Slot and is about to swap.
SlotResetReuseWitness ==
    \E t, u \in Threads :
        /\ pc[t] = "idle" /\ iter[t] = 1 /\ next[SlotOf(t, "A")] # Null
        /\ pc[u] = "lock_swap" /\ iter[u] = 0 /\ next[SlotOf(u, "A")] = Null
        /\ queue["A"] # Null

\* C18: a swap that returns null hands the Guard back in the same step, with no
\* flag created, no Slot written and no turn of the loop; a swap that returns a
\* predecessor goes on to publish; so a thread that still has to wait in lock is
\* behind another thread.
UncontendedImmediate ==
    /\ [][\A t \in Threads :
             pc[t] = "lock_swap" /\ pc'[t] # "lock_swap" =>
                IF queue[cur[t]] = Null
                   THEN /\ pc'[t] = "held" /\ Holds(t, cur[t])'
                        /\ UNCHANGED <<next, locked, pred>>
                   ELSE /\ pc'[t] = "lock_publish" /\ ~Holds(t, cur[t])'
                        /\ pred'[t] = queue[cur[t]]
                        /\ UNCHANGED <<next, locked>>]_vars
    /\ [](\A t \in Threads :
             /\ pc[t] = "lock_publish" => pred[t] \in Slots \ {SlotOf(t, cur[t])}
             /\ pc[t] = "lock_publish" \/ (pc[t] = "lock_spin" /\ locked[t]) =>
                   \E i \in 2..Len(order[cur[t]]) : order[cur[t]][i] = t
             /\ locked[t] => pc[t] = "lock_spin")

\* A thread in its second acquisition is about to swap onto a free tail while its
\* Slot was used, and waited behind, before.
UncontendedImmediateWitness ==
    \E t \in Threads :
        /\ pc[t] = "lock_swap" /\ cur[t] = "A" /\ queue["A"] = Null
        /\ iter[t] = 0 /\ data["A"] >= 2
        /\ \E u \in Threads : u # t /\ next[SlotOf(u, "A")] = t

\* The last element of a non-empty sequence.
Last(q) == q[Len(q)]

\* The threads whose local pred names the Slot s.
Behind(s) == {u \in Threads : pred[u] = s}

\* C19: the Slots on the queue of a Mutex form one chain, in swap order, from the
\* Slot of the holder (or of the waiter just woken) to the Slot the tail names:
\* each Slot but the last has exactly one successor, linked through next or, until
\* it publishes, through its pred; the last one has none.
QueueShape ==
    \A m \in Mutexes :
        LET q == order[m] IN
        /\ \A i, j \in 1..Len(q) : q[i] = q[j] => i = j
        /\ queue[m] = (IF q = <<>> THEN Null ELSE SlotOf(Last(q), m))
        /\ \A i \in 1..Len(q) :
              /\ Holds(q[i], m) \/ InLock(q[i], m)
              /\ i > 1 => InLock(q[i], m) /\ ~Holds(q[i], m)
              /\ i < Len(q) =>
                    \/ /\ next[SlotOf(q[i], m)] = Null
                       /\ Behind(SlotOf(q[i], m)) = {q[i + 1]}
                       /\ pc[q[i + 1]] = "lock_publish"
                    \/ /\ next[SlotOf(q[i], m)] = q[i + 1]
                       /\ Behind(SlotOf(q[i], m)) = {}
                       /\ pc[q[i + 1]] = "lock_spin" /\ locked[q[i + 1]]
              /\ i = Len(q) =>
                    /\ next[SlotOf(q[i], m)] = Null
                    /\ Behind(SlotOf(q[i], m)) = {}
        /\ \A t \in Threads :
              (Holds(t, m) \/ InLock(t, m)) => \E i \in 1..Len(q) : q[i] = t

\* A chain of three: the holder's Slot points to a spinning waiter, behind which
\* the thread on the tail has swapped in and not yet published.
QueueShapeWitness ==
    \E t, u, v \in Threads :
        /\ order["A"] = <<t, u, v>>
        /\ Holds(t, "A") /\ next[SlotOf(t, "A")] = u
        /\ pc[u] = "lock_spin" /\ next[SlotOf(u, "A")] = Null
        /\ pc[v] = "lock_publish" /\ pred[v] = SlotOf(u, "A")
        /\ queue["A"] = SlotOf(v, "A")

\* C20: a thread that spins with its flag still true is behind a thread that will
\* clear the flag: the first thread of the queue holds the Guard (it is using it
\* or is inside drop) or has been woken, a releaser in its loop has a successor
\* about to publish, a holder that locks the inner Mutex finds it free, and each
\* waiter's flag is named by the Slot directly ahead of it.
NoStuckState ==
    \A t \in Threads :
        pc[t] = "lock_spin" /\ locked[t] =>
           LET m == cur[t]
               h == Head(order[m])
           IN  /\ order[m] # <<>> /\ h # t
               /\ pc[h] # "dead"
               /\ \/ Holds(h, m)
                  \/ pc[h] = "lock_spin" /\ cur[h] = m /\ ~locked[h]
               /\ pc[h] = "drop_spin" /\ cur[h] = m /\ next[SlotOf(h, m)] = Null =>
                     \E u \in Unpublished(h) : TRUE
               /\ Holds(h, m) /\ cur[h] # m =>
                     /\ Holds(h, cur[h]) \/ (pc[h] = "lock_swap" /\ queue[cur[h]] = Null)
                     /\ pc[h] = "drop_spin" => next[SlotOf(h, cur[h])] # Null
               /\ ENABLED ThreadStep(h)
               /\ \E i \in 2..Len(order[m]) :
                     /\ order[m][i] = t
                     /\ next[SlotOf(order[m][i - 1], m)] = t

\* Two threads spin with their flags set behind a releaser whose compare-and-swap
\* is still to come.
NoStuckStateWitness ==
    \E t, u, v \in Threads :
        /\ order["A"] = <<t, u, v>>
        /\ pc[t] = "drop_cas" /\ cur[t] = "A"
        /\ pc[u] = "lock_spin" /\ locked[u]
        /\ pc[v] = "lock_spin" /\ locked[v]
====
